---- MODULE Spec2Model ----
(***************************************************************************)
(* Model of src/app.py: the Streamlit dashboard "Delta Ticket Harian".     *)
(* One script run is one step: either the Dashboard view is rendered or    *)
(* the Upload view processes one uploaded spreadsheet.  The state is the   *)
(* data folder (latest.xlsx, previous_<hash>.xlsx, upload_history.csv),    *)
(* the st.cache_data memo of load_excel, and what the last run computed.   *)
(***************************************************************************)
EXTENDS Integers, Sequences, FiniteSets, TLC

VARIABLES latest, previous, history, cache, view

vars == <<latest, previous, history, cache, view>>
disk == <<latest, previous, history>>

(***************************************************************************)
(* Bounds of the model.                                                    *)
(***************************************************************************)
MaxHistory == 3
MaxPort == 2
HashSpace == 14

(***************************************************************************)
(* Spreadsheets.  A file is its bytes: the table plus workbook bytes that  *)
(* are not part of the table (salt).  A table is its set of column names   *)
(* and its rows; a Total Port cell is a number or a text (Port_Text).      *)
(* An optional value is a sequence of length at most one.                  *)
(***************************************************************************)
Regionals == {"R1", "R2"}
Witels == {"X", "Y", "Z"}
Datels == {"d1", "d2"}
TicketOrder == <<"T1", "T2", "T3">>
TicketIds == {TicketOrder[i] : i \in DOMAIN TicketOrder}
GrandTotal == "Grand Total"

AllColumns == {"Regional", "Witel", "Datel", "Status Proyek", "Total Port",
               "Ticket ID", "Nama Proyek"}

Ticket(id, reg, witel, datel, status, port) ==
    [Ticket_ID |-> id, Regional |-> reg, Witel |-> witel, Datel |-> datel,
     Status_Proyek |-> status, Total_Port |-> port, Port_Text |-> FALSE]

File(salt, columns, rows) == [salt |-> salt, columns |-> columns, rows |-> rows]

Idx(df) == DOMAIN df.rows

\* pd.read_excel: the table of a workbook; the other bytes are dropped.
read_excel(file) == [columns |-> file.columns, rows |-> file.rows]

(***************************************************************************)
(* get_file_hash: a digest of the bytes, of bounded width.                 *)
(***************************************************************************)
StrCode(s) ==
    CASE s = "X" -> 1 [] s = "Y" -> 2 [] s = "Z" -> 3
      [] s = "d1" -> 1 [] s = "d2" -> 2
      [] s = "R1" -> 1 [] s = "R2" -> 2
      [] s = "T1" -> 1 [] s = "T2" -> 2 [] s = "T3" -> 3
      [] s = "On Going" -> 1 [] s = "Go Live" -> 2
      [] OTHER -> 3

RowCode(r) ==
    StrCode(r.Ticket_ID) + 4 * StrCode(r.Regional) + 12 * StrCode(r.Witel)
    + 36 * StrCode(r.Datel) + 108 * StrCode(r.Status_Proyek)
    + 432 * (r.Total_Port + 2) + (IF r.Port_Text THEN 7 ELSE 0)

RECURSIVE RowsCode(_, _)
RowsCode(rows, i) ==
    IF i > Len(rows) THEN 0
    ELSE (i * RowCode(rows[i])) + 31 * RowsCode(rows, i + 1)

ColCode(c) ==
    CASE c = "Regional" -> 1 [] c = "Witel" -> 2 [] c = "Datel" -> 4
      [] c = "Status Proyek" -> 8 [] c = "Total Port" -> 16
      [] c = "Ticket ID" -> 32 [] OTHER -> 64

RECURSIVE ColsCode(_)
ColsCode(columns) ==
    IF columns = {} THEN 0
    ELSE LET c == CHOOSE c \in columns : TRUE
         IN ColCode(c) + ColsCode(columns \ {c})

Checksum(file) ==
    file.salt + 3 * ColsCode(file.columns) + 5 * Len(file.rows)
    + RowsCode(file.rows, 1)

get_file_hash(file) == Checksum(file) % HashSpace

Hashes == 0 .. (HashSpace - 1)

(***************************************************************************)
(* validate_data.  The result is (is_valid, errors), or the KeyError that  *)
(* indexing a missing column raises (raised).                              *)
(***************************************************************************)
required_columns == {"Regional", "Witel", "Status Proyek", "Total Port",
                     "Datel", "Ticket ID"}
valid_statuses == {"On Going", "Go Live"}

ColumnErrors(df) ==
    IF required_columns \ df.columns # {}
    THEN <<"Missing required columns">> ELSE <<>>

PortErrors(df) ==
    IF \E i \in Idx(df) : df.rows[i].Port_Text
    THEN <<"Total Port must contain numeric values">>
    ELSE IF \E i \in Idx(df) : df.rows[i].Total_Port < 0
         THEN <<"Total Port contains negative values">>
         ELSE <<>>

DuplicateErrors(df) ==
    IF \E i, j \in Idx(df) : i < j /\ df.rows[i].Ticket_ID = df.rows[j].Ticket_ID
    THEN <<"Found duplicate Ticket IDs">> ELSE <<>>

StatusErrors(df) ==
    IF \E i \in Idx(df) : df.rows[i].Status_Proyek \notin valid_statuses
    THEN <<"Invalid status values found">> ELSE <<>>

Raised == [raised |-> TRUE, is_valid |-> FALSE, errors |-> <<>>]

validate_data(df) ==
    IF {"Total Port", "Ticket ID", "Status Proyek"} \ df.columns # {}
    THEN Raised
    ELSE LET errors == ColumnErrors(df) \o PortErrors(df)
                       \o DuplicateErrors(df) \o StatusErrors(df)
         IN [raised |-> FALSE, is_valid |-> Len(errors) = 0, errors |-> errors]

(***************************************************************************)
(* The snapshot store: get_last_upload_info and record_upload_history.     *)
(* upload_history.csv absent and empty read alike; one entry per line,     *)
(* oldest first.  previous[h] is the file previous_<h>.xlsx.               *)
(***************************************************************************)
NoPrevious == [h \in Hashes |-> <<>>]

get_last_upload_info(hist) ==
    IF hist = <<>> THEN <<>> ELSE <<hist[Len(hist)].file_hash>>

\* record_upload_history, lines 59-65: runs after save_file wrote LATEST_FILE.
ArchivePrevious(prev, hist, lat) ==
    IF hist # <<>> /\ lat # <<>>
    THEN [prev EXCEPT ![hist[Len(hist)].file_hash] = lat]
    ELSE prev

\* record_upload_history, lines 56 and 67-72.
AppendHistory(hist, lat) ==
    Append(hist, [file_hash |-> get_file_hash(lat[1])])

(***************************************************************************)
(* Upload view.                                                            *)
(***************************************************************************)
IsDuplicateNever(last_hash, current_hash) == FALSE

IsDuplicate(last_hash, current_hash) ==
    last_hash # <<>> /\ current_hash = last_hash[1]

UploadResultUnblocked(last_hash, file) ==
    IF IsDuplicate(last_hash, get_file_hash(file)) THEN "same"
    ELSE IF validate_data(read_excel(file)).raised THEN "error"
    ELSE "saved"

UploadResult(last_hash, file) ==
    IF IsDuplicate(last_hash, get_file_hash(file)) THEN "same"
    ELSE LET v == validate_data(read_excel(file))
         IN IF v.raised THEN "error"
            ELSE IF ~v.is_valid THEN "invalid"
            ELSE "saved"

UploadView(file) ==
    LET last_hash == get_last_upload_info(history)
        result == UploadResult(last_hash, file)
    IN /\ result = "saved" => Len(history) < MaxHistory
       /\ view' = [op |-> "upload", uploaded |-> file, result |-> result,
                   validation |-> IF result = "same" THEN <<>>
                                  ELSE <<validate_data(read_excel(file))>>]
       /\ IF result = "saved"
          THEN /\ latest' = <<file>>
               /\ previous' = ArchivePrevious(previous, history, <<file>>)
               /\ history' = AppendHistory(history, <<file>>)
          ELSE UNCHANGED disk
       /\ UNCHANGED cache

(***************************************************************************)
(* compare_with_previous and show_new_golive_projects.                     *)
(***************************************************************************)
RECURSIVE SumPort(_, _)
SumPort(df, I) ==
    IF I = {} THEN 0
    ELSE LET i == CHOOSE i \in I : TRUE
         IN df.rows[i].Total_Port + SumPort(df, I \ {i})

GoLiveRows(df) == {i \in Idx(df) : df.rows[i].Status_Proyek = "Go Live"}

\* df[df['Status Proyek'] == 'Go Live'].groupby('Witel')['Total Port'].sum()
GoLiveByWitel(df) ==
    [w \in {df.rows[i].Witel : i \in GoLiveRows(df)} |->
        SumPort(df, {i \in GoLiveRows(df) : df.rows[i].Witel = w})]

GoLiveDeltaNoSubtract(current_df, previous_df) == GoLiveByWitel(current_df)

\* lines 42-48
GoLiveDelta(current_df, previous_df) ==
    LET current_golive == GoLiveByWitel(current_df)
        previous_golive == GoLiveByWitel(previous_df)
    IN [witel \in DOMAIN current_golive |->
           current_golive[witel]
           - (IF witel \in DOMAIN previous_golive
              THEN previous_golive[witel] ELSE 0)]

\* The file both functions look for: previous_<history[-2].file_hash>.xlsx.
PreviousFile(hist, prev) ==
    IF Len(hist) >= 2 THEN prev[hist[Len(hist) - 1].file_hash] ELSE <<>>

compare_with_previousAsEmpty(current_df, hist, prev) ==
    LET previous_file == PreviousFile(hist, prev)
    IN IF previous_file = <<>>
       THEN GoLiveDelta(current_df, [columns |-> current_df.columns, rows |-> <<>>])
       ELSE GoLiveDelta(current_df, read_excel(previous_file[1]))

compare_with_previous(current_df, hist, prev) ==
    LET previous_file == PreviousFile(hist, prev)
    IN IF previous_file = <<>> THEN <<>>
       ELSE GoLiveDelta(current_df, read_excel(previous_file[1]))

\* line 50: shutil.copy(LATEST_FILE, previous_file)
CopyLatestToPrevious(hist, prev, lat) ==
    IF PreviousFile(hist, prev) = <<>> THEN prev
    ELSE [prev EXCEPT ![hist[Len(hist) - 1].file_hash] = lat]

show_new_golive_projects(current_df, hist, prev) ==
    IF hist = <<>>
    THEN [warning |-> "No previous upload history found", new_golive |-> {}]
    ELSE IF Len(hist) < 2
    THEN [warning |-> "Only one upload in history - cannot compare", new_golive |-> {}]
    ELSE IF PreviousFile(hist, prev) = <<>>
    THEN [warning |-> "Previous data file not found", new_golive |-> {}]
    ELSE LET previous_df == read_excel(PreviousFile(hist, prev)[1])
             previous_ids == {previous_df.rows[i].Ticket_ID : i \in GoLiveRows(previous_df)}
         IN [warning |-> "",
             new_golive |-> {current_df.rows[i].Ticket_ID :
                               i \in {j \in GoLiveRows(current_df) :
                                        current_df.rows[j].Ticket_ID \notin previous_ids}}]

(***************************************************************************)
(* create_pivot_tables.  A pivot is a function from its index to its rows; *)
(* the flattened column names 'Total Port_Go Live', ... become TP_GoLive,  *)
(* ...; '%' is pct; RANK NoRank is the None of line 157.                   *)
(***************************************************************************)
NoRank == 0

\* numpy's round of n/d (n >= 0, d > 0): to nearest, halves to even.
RoundDiv(n, d) ==
    LET q == n \div d
        r == n % d
    IN IF 2 * r < d THEN q
       ELSE IF 2 * r > d THEN q + 1
       ELSE IF q % 2 = 0 THEN q ELSE q + 1

PctOverOnGoing(golive, total) ==
    IF total - golive = 0 THEN 0 ELSE RoundDiv(100 * golive, total - golive)

\* (golive / total).fillna(0) * 100, then round(0).astype(int)
Pct(golive, total) ==
    IF total = 0 THEN 0 ELSE RoundDiv(100 * golive, total)

RankAscending(vals, keys, k) ==
    1 + Cardinality({j \in keys : vals[j] < vals[k]})

\* Series.rank(ascending=False, method='min') of row k among rows keys
RankMin(vals, keys, k) ==
    1 + Cardinality({j \in keys : vals[j] > vals[k]})

StatusRows(df, I, status) == {i \in I : df.rows[i].Status_Proyek = status}

PivotSums(df, I) ==
    [LoP_OnGoing |-> Cardinality(StatusRows(df, I, "On Going")),
     LoP_GoLive |-> Cardinality(StatusRows(df, I, "Go Live")),
     LoP_GrandTotal |-> Cardinality(I),
     TP_OnGoing |-> SumPort(df, StatusRows(df, I, "On Going")),
     TP_GoLive |-> SumPort(df, StatusRows(df, I, "Go Live")),
     TP_GrandTotal |-> SumPort(df, I)]

\* lines 121-157
WitelPivot(df, delta_values) ==
    LET index == {df.rows[i].Witel : i \in Idx(df)} \cup {GrandTotal}
        rowsOf(k) == IF k = GrandTotal THEN Idx(df)
                     ELSE {i \in Idx(df) : df.rows[i].Witel = k}
        sums == [k \in index |-> PivotSums(df, rowsOf(k))]
        golive == [k \in index |-> sums[k].TP_GoLive]
    IN [k \in index |->
          [LoP_OnGoing |-> sums[k].LoP_OnGoing,
           LoP_GoLive |-> sums[k].LoP_GoLive,
           LoP_GrandTotal |-> sums[k].LoP_GrandTotal,
           TP_OnGoing |-> sums[k].TP_OnGoing,
           TP_GoLive |-> sums[k].TP_GoLive,
           TP_GrandTotal |-> sums[k].TP_GrandTotal,
           pct |-> Pct(sums[k].TP_GoLive, sums[k].TP_GrandTotal),
           delta |-> IF k \in DOMAIN delta_values THEN delta_values[k] ELSE 0,
           RANK |-> IF k = GrandTotal THEN NoRank
                    ELSE RankMin(golive, index, k)]]

\* lines 160-188
DatelPivot(df) ==
    LET index == {<<df.rows[i].Witel, df.rows[i].Datel>> : i \in Idx(df)}
        rowsOf(k) == {i \in Idx(df) : df.rows[i].Witel = k[1] /\ df.rows[i].Datel = k[2]}
        sums == [k \in index |-> PivotSums(df, rowsOf(k))]
        golive == [k \in index |-> sums[k].TP_GoLive]
    IN [k \in index |->
          [LoP_OnGoing |-> sums[k].LoP_OnGoing,
           LoP_GoLive |-> sums[k].LoP_GoLive,
           TP_OnGoing |-> sums[k].TP_OnGoing,
           TP_GoLive |-> sums[k].TP_GoLive,
           pct |-> Pct(sums[k].TP_GoLive, sums[k].TP_OnGoing + sums[k].TP_GoLive),
           RANK |-> RankMin(golive, {j \in index : j[1] = k[1]}, k)]]

\* The columns pivot_table makes are the statuses present in df; line 153
\* needs 'Total Port_Go Live' and line 175 'Total Port_On Going', else the
\* KeyError is caught at line 191 and the result is (None, None).
create_pivot_tables(df, delta_values) ==
    LET statuses == {df.rows[i].Status_Proyek : i \in Idx(df)}
    IN IF "Go Live" \in statuses /\ "On Going" \in statuses
       THEN <<[witel_pivot |-> WitelPivot(df, delta_values),
               datel_pivot |-> DatelPivot(df)]>>
       ELSE <<>>

(***************************************************************************)
(* Dashboard view.                                                         *)
(***************************************************************************)
\* @st.cache_data load_excel(LATEST_FILE): the memo is keyed by the path.
load_excel_latest(memo, lat) ==
    IF memo = <<>> THEN read_excel(lat[1]) ELSE memo[1]

FilterRegional(df, selected_region) ==
    IF selected_region = "All" THEN df
    ELSE [columns |-> df.columns,
          rows |-> SelectSeq(df.rows, LAMBDA r : r.Regional = selected_region)]

DashboardView(selected_region) ==
    IF latest = <<>>
    THEN /\ selected_region = "All"
         /\ view' = [op |-> "dashboard", shown |-> FALSE]
         /\ UNCHANGED <<disk, cache>>
    ELSE LET loaded == load_excel_latest(cache, latest)
             df == FilterRegional(loaded, selected_region)
             delta_values == compare_with_previous(df, history, previous)
         IN /\ selected_region \in
                 {"All"} \cup {loaded.rows[i].Regional : i \in Idx(loaded)}
            /\ cache' = <<loaded>>
            /\ previous' = CopyLatestToPrevious(history, previous, latest)
            /\ view' = [op |-> "dashboard", shown |-> TRUE,
                        loaded |-> loaded,
                        selected_region |-> selected_region,
                        df |-> df,
                        previous_file |-> PreviousFile(history, previous),
                        new_golive |-> show_new_golive_projects(df, history, previous),
                        delta_values |-> delta_values,
                        pivots |-> create_pivot_tables(df, delta_values)]
            /\ UNCHANGED <<latest, history>>

(***************************************************************************)
(* The uploaded spreadsheets.  SnapshotA and SnapshotB are the scenario of *)
(* the specification (100, 50 and 30 ports scaled to 2, 1 and 1).          *)
(***************************************************************************)
SnapshotA ==
    File(0, AllColumns,
         <<Ticket("T1", "R1", "X", "d1", "On Going", 2),
           Ticket("T2", "R1", "X", "d1", "Go Live", 1)>>)

SnapshotB ==
    File(0, AllColumns,
         <<Ticket("T1", "R1", "X", "d1", "Go Live", 2),
           Ticket("T3", "R2", "Y", "d2", "On Going", 1)>>)

SnapshotC ==
    File(0, AllColumns,
         <<Ticket("T1", "R1", "X", "d1", "Go Live", 2),
           Ticket("T2", "R2", "Y", "d1", "Go Live", 1),
           Ticket("T3", "R1", "X", "d2", "On Going", 1)>>)

\* The same table saved again: other bytes, same rows.
Resaved(file) == [file EXCEPT !.salt = file.salt + 1]

WithoutColumn(file, c) == [file EXCEPT !.columns = file.columns \ {c}]

WithFirstRow(file, row) == [file EXCEPT !.rows = <<row>> \o Tail(file.rows)]

Defective(file) ==
    {WithoutColumn(file, c) : c \in AllColumns}
    \cup {WithFirstRow(file, [file.rows[1] EXCEPT !.Total_Port = -1]),
          WithFirstRow(file, [file.rows[1] EXCEPT !.Port_Text = TRUE]),
          WithFirstRow(file, [file.rows[1] EXCEPT !.Status_Proyek = "Cancel"]),
          WithFirstRow(file, [file.rows[1] EXCEPT !.Ticket_ID = file.rows[2].Ticket_ID])}

Uploads ==
    {SnapshotA, SnapshotB, SnapshotC, Resaved(SnapshotA)} \cup Defective(SnapshotA)

(***************************************************************************)
(* The program: a fresh data folder, then one script run per step.         *)
(***************************************************************************)
Init ==
    /\ latest = <<>>
    /\ previous = NoPrevious
    /\ history = <<>>
    /\ cache = <<>>
    /\ view = [op |-> "start"]

Upload == \E file \in Uploads : UploadView(file)

Dashboard == \E selected_region \in {"All"} \cup Regionals : DashboardView(selected_region)

Next == Upload \/ Dashboard

Spec == Init /\ [][Next]_vars

(***************************************************************************)
(* The functions on their own, on every validated table over the tickets   *)
(* TicketOrder: each ticket is absent or present with some attributes.     *)
(***************************************************************************)
Ports == 0 .. MaxPort

Attributes(witels, datels) == witels \X datels \X valid_statuses \X Ports

RECURSIVE RowsOfChoice(_, _, _)
RowsOfChoice(choice, order, i) ==
    IF i > Len(order) THEN <<>>
    ELSE (IF choice[order[i]] = <<>> THEN <<>>
          ELSE LET a == choice[order[i]][1]
               IN <<Ticket(order[i], "R1", a[1], a[2], a[3], a[4])>>)
         \o RowsOfChoice(choice, order, i + 1)

TablesOver(order, witels, datels) ==
    LET ids == {order[i] : i \in DOMAIN order}
        choices == [ids -> {<<>>} \cup {<<a>> : a \in Attributes(witels, datels)}]
    IN {[columns |-> AllColumns, rows |-> RowsOfChoice(c, order, 1)] : c \in choices}

PivotTables == TablesOver(TicketOrder, Witels, Datels)

\* compare_with_previous reads neither Datel nor Regional.
CurrentTables == TablesOver(TicketOrder, {"X", "Y"}, {"d1"})

PreviousTables == TablesOver(<<"T1", "T2">>, {"X", "Y"}, {"d1"})

InitPivot ==
    /\ latest = <<>>
    /\ previous = NoPrevious
    /\ history = <<>>
    /\ cache = <<>>
    /\ \E df \in PivotTables :
          /\ validate_data(df).is_valid
          /\ view = [op |-> "call", fn |-> "create_pivot_tables", df |-> df]

\* create_pivot_tables(df), lines 112-193
CallPivot ==
    /\ view.op = "call"
    /\ LET delta_values == compare_with_previous(view.df, history, previous)
       IN /\ previous' = CopyLatestToPrevious(history, previous, latest)
          /\ view' = [op |-> "returned", fn |-> "create_pivot_tables", df |-> view.df,
                      delta_values |-> delta_values,
                      pivots |-> create_pivot_tables(view.df, delta_values)]
    /\ UNCHANGED <<latest, history, cache>>

SpecPivot == InitPivot /\ [][CallPivot]_vars

InitDelta ==
    /\ latest = <<>>
    /\ previous = NoPrevious
    /\ history = <<>>
    /\ cache = <<>>
    /\ \E current_df \in CurrentTables, previous_df \in PreviousTables :
          /\ validate_data(current_df).is_valid
          /\ validate_data(previous_df).is_valid
          /\ view = [op |-> "call", fn |-> "compare_with_previous",
                     current_df |-> current_df,
                     previous_df |-> previous_df]

\* compare_with_previous, lines 40-48, on the two tables it has read
CallDelta ==
    /\ view.op = "call"
    /\ view' = [op |-> "returned", fn |-> "compare_with_previous",
                current_df |-> view.current_df,
                previous_df |-> view.previous_df,
                delta_dict |-> GoLiveDelta(view.current_df, view.previous_df)]
    /\ UNCHANGED <<disk, cache>>

SpecDelta == InitDelta /\ [][CallDelta]_vars

(***************************************************************************)
(* What the last run put on the page.                                      *)
(***************************************************************************)
Rendered == view.op = "dashboard" /\ view.shown

PivotsMade ==
    /\ \/ Rendered
       \/ view.op = "returned" /\ view.fn = "create_pivot_tables"
    /\ view.pivots # <<>>

DeltaReturned == view.op = "returned" /\ view.fn = "compare_with_previous"

DeltaAt(delta_dict, witel) ==
    IF witel \in DOMAIN delta_dict THEN delta_dict[witel] ELSE 0

FailsValidation(file) ==
    LET v == validate_data(read_excel(file))
    IN v.raised \/ ~v.is_valid

(***************************************************************************)
(* C1.  After two successful uploads A then B, previous_<h>.xlsx, with h   *)
(* the second-to-last file_hash of the history, exists and holds content   *)
(* whose hash is h (upload A), not the content of the latest upload B.     *)
(***************************************************************************)
C1_PreviousHoldsPriorUpload ==
    Len(history) >= 2 =>
        LET h == history[Len(history) - 1].file_hash
        IN /\ previous[h] # <<>>
           /\ get_file_hash(previous[h][1]) = h
           /\ previous[h] # latest

(***************************************************************************)
(* C2.  An upload whose bytes hash to the file_hash of the last history    *)
(* entry changes nothing in the data folder: latest.xlsx, every            *)
(* previous_<hash>.xlsx and the upload history stay as they were.          *)
(***************************************************************************)
C2_DuplicateUploadIsNoOp ==
    [][(/\ view'.op = "upload"
        /\ history # <<>>
        /\ get_file_hash(view'.uploaded) = history[Len(history)].file_hash)
       => UNCHANGED disk]_vars

C2_Witness ==
    /\ view.op = "upload"
    /\ view.result = "same"
    /\ Len(history) >= 2
    /\ <<view.uploaded>> # latest

(***************************************************************************)
(* C3.  An upload whose table fails validation, by a fail result or by an  *)
(* exception, changes nothing in the data folder.                          *)
(***************************************************************************)
C3_FailedValidationPersistsNothing ==
    [][(view'.op = "upload" /\ FailsValidation(view'.uploaded))
       => UNCHANGED disk]_vars

C3_Witness ==
    /\ view.op = "upload"
    /\ view.result = "error"
    /\ latest # <<>>
    /\ get_file_hash(view.uploaded) # history[Len(history)].file_hash

(***************************************************************************)
(* C4.  As claimed: the delta of a Witel is the sum of the current-side    *)
(* ports of the tickets present in both tables that are 'Go Live' in the   *)
(* current one and had another status in the previous one.                 *)
(***************************************************************************)
TransitionedRows(current_df, previous_df, witel) ==
    {i \in GoLiveRows(current_df) :
        /\ current_df.rows[i].Witel = witel
        /\ \E j \in Idx(previous_df) :
              /\ previous_df.rows[j].Ticket_ID = current_df.rows[i].Ticket_ID
              /\ previous_df.rows[j].Status_Proyek # "Go Live"}

C4_DeltaIsTransitionedPorts ==
    DeltaReturned =>
        \A witel \in Witels :
            DeltaAt(view.delta_dict, witel)
              = SumPort(view.current_df,
                        TransitionedRows(view.current_df, view.previous_df, witel))

(***************************************************************************)
(* C4, amended.  The delta map has an entry exactly for the Witels with a  *)
(* 'Go Live' ticket in the current table, and the entry is the current     *)
(* table's 'Go Live' port sum of the Witel minus the previous table's.     *)
(***************************************************************************)
GoLiveRowsOf(df, witel) ==
    {i \in Idx(df) : df.rows[i].Status_Proyek = "Go Live" /\ df.rows[i].Witel = witel}

C4_DeltaIsGoLiveSumDifference ==
    DeltaReturned =>
        \A witel \in Witels :
            /\ witel \in DOMAIN view.delta_dict
                 <=> GoLiveRowsOf(view.current_df, witel) # {}
            /\ witel \in DOMAIN view.delta_dict =>
                 view.delta_dict[witel]
                   = SumPort(view.current_df, GoLiveRowsOf(view.current_df, witel))
                     - SumPort(view.previous_df, GoLiveRowsOf(view.previous_df, witel))

\* The scenario of the specification: the code reports +1 (100 - 50), not +2.
C4_Witness ==
    /\ DeltaReturned
    /\ view.previous_df.rows = <<Ticket("T1", "R1", "X", "d1", "On Going", 2),
                                 Ticket("T2", "R1", "X", "d1", "Go Live", 1)>>
    /\ view.current_df.rows = <<Ticket("T1", "R1", "X", "d1", "Go Live", 2),
                                Ticket("T3", "R1", "Y", "d1", "On Going", 1)>>
    /\ view.delta_dict = [witel \in {"X"} |-> 1]

(***************************************************************************)
(* C5.  validate_data of a table lacking one of the seven required fields  *)
(* returns a fail result with a non-empty reason list; it neither passes   *)
(* nor raises.                                                             *)
(***************************************************************************)
C5_MissingFieldFailsWithReasons ==
    (/\ view.op = "upload"
     /\ view.validation # <<>>
     /\ AllColumns \ view.uploaded.columns # {})
    => /\ ~view.validation[1].raised
       /\ ~view.validation[1].is_valid
       /\ view.validation[1].errors # <<>>

(***************************************************************************)
(* C6.  In the Witel table the 'Grand Total' row takes no part in ranking  *)
(* and ranks are dense: a row's RANK is 1 plus the number of distinct      *)
(* Go-Live port sums, among the other Witel rows, greater than its own.    *)
(***************************************************************************)
C6_RanksDenseWithoutGrandTotal ==
    PivotsMade =>
        LET wp == view.pivots[1].witel_pivot
            groups == DOMAIN wp \ {GrandTotal}
        IN \A k \in groups :
              wp[k].RANK = 1 + Cardinality({wp[j].TP_GoLive :
                                 j \in {g \in groups : wp[g].TP_GoLive > wp[k].TP_GoLive}})

(***************************************************************************)
(* C7.  Rank monotonicity: for two Witel rows, and for two Datel rows of   *)
(* the same Witel, a greater Go-Live port sum never has a greater RANK,    *)
(* and equal sums have equal RANK.                                         *)
(***************************************************************************)
MonotoneRanks(pivot, a, b) ==
    /\ pivot[a].TP_GoLive > pivot[b].TP_GoLive => pivot[a].RANK <= pivot[b].RANK
    /\ pivot[a].TP_GoLive = pivot[b].TP_GoLive => pivot[a].RANK = pivot[b].RANK

C7_RankMonotone ==
    PivotsMade =>
        LET wp == view.pivots[1].witel_pivot
            dp == view.pivots[1].datel_pivot
        IN /\ \A a, b \in DOMAIN wp \ {GrandTotal} : MonotoneRanks(wp, a, b)
           /\ \A a, b \in DOMAIN dp : a[1] = b[1] => MonotoneRanks(dp, a, b)

C7_Witness ==
    /\ PivotsMade
    /\ LET wp == view.pivots[1].witel_pivot
       IN \E a, b, c \in DOMAIN wp \ {GrandTotal} :
             /\ a # b
             /\ wp[a].TP_GoLive = wp[b].TP_GoLive
             /\ wp[a].RANK = wp[b].RANK
             /\ wp[b].TP_GoLive > wp[c].TP_GoLive
             /\ wp[b].RANK < wp[c].RANK

(***************************************************************************)
(* C8.  In every row of both tables, 'Grand Total' included, the           *)
(* percentage is between 0 and 100, and it is 0 when the row's total port  *)
(* sum is 0.                                                               *)
(***************************************************************************)
PctInBounds(pct, total) ==
    /\ 0 <= pct
    /\ pct <= 100
    /\ total = 0 => pct = 0

C8_PctBounds ==
    PivotsMade =>
        LET wp == view.pivots[1].witel_pivot
            dp == view.pivots[1].datel_pivot
        IN /\ \A k \in DOMAIN wp : PctInBounds(wp[k].pct, wp[k].TP_GrandTotal)
           /\ \A k \in DOMAIN dp :
                 PctInBounds(dp[k].pct, dp[k].TP_OnGoing + dp[k].TP_GoLive)

C8_Witness ==
    /\ PivotsMade
    /\ LET wp == view.pivots[1].witel_pivot
           dp == view.pivots[1].datel_pivot
       IN /\ \E k \in DOMAIN wp : wp[k].TP_GrandTotal = 0 /\ wp[k].pct = 0
          /\ \E k \in DOMAIN wp : wp[k].pct = 100
          /\ wp[GrandTotal].pct > 0 /\ wp[GrandTotal].pct < 100
          /\ \E k \in DOMAIN dp : dp[k].TP_OnGoing + dp[k].TP_GoLive = 0

(***************************************************************************)
(* C9.  First run: a Dashboard run that finds no previous snapshot (no     *)
(* history, fewer than two entries, or no archived file) gets an empty     *)
(* delta map, so every delta column is 0, reports no new Go-Live ticket,   *)
(* and leaves the data folder as it was.                                   *)
(***************************************************************************)
NoPreviousSnapshot ==
    \/ Len(history) < 2
    \/ previous[history[Len(history) - 1].file_hash] = <<>>

C9_FirstRunBaseline ==
    [][(view'.op = "dashboard" /\ view'.shown /\ NoPreviousSnapshot)
       => /\ UNCHANGED disk
          /\ view'.delta_values = <<>>
          /\ view'.new_golive.new_golive = {}
          /\ view'.new_golive.warning # ""
          /\ view'.pivots # <<>> =>
                \A k \in DOMAIN view'.pivots[1].witel_pivot :
                    view'.pivots[1].witel_pivot[k].delta = 0]_vars

C9_Witness ==
    /\ Rendered
    /\ Len(history) = 1
    /\ view.previous_file = <<>>
    /\ view.pivots # <<>>
    /\ GoLiveRows(view.df) # {}
    /\ view.delta_values = <<>>

(***************************************************************************)
(* C10.  On every Dashboard run the table that load_excel(LATEST_FILE)     *)
(* returns is the current content of latest.xlsx.                          *)
(***************************************************************************)
C10_DashboardShowsLatest ==
    Rendered => view.loaded = read_excel(latest[1])

(***************************************************************************)
(* C11.  create_pivot_tables of a non-empty validated table, also one      *)
(* whose tickets all share one status, returns both tables, with sums of   *)
(* 0 for a status no ticket has; it never returns (None, None).            *)
(***************************************************************************)
C11_PivotTablesTotal ==
    (/\ view.op = "returned"
     /\ view.fn = "create_pivot_tables"
     /\ view.df.rows # <<>>
     /\ validate_data(view.df).is_valid)
    => /\ view.pivots # <<>>
       /\ LET wp == view.pivots[1].witel_pivot
              dp == view.pivots[1].datel_pivot
              statuses == {view.df.rows[i].Status_Proyek : i \in Idx(view.df)}
          IN /\ "Go Live" \notin statuses =>
                  /\ \A k \in DOMAIN wp : wp[k].TP_GoLive = 0 /\ wp[k].LoP_GoLive = 0
                  /\ \A k \in DOMAIN dp : dp[k].TP_GoLive = 0 /\ dp[k].LoP_GoLive = 0
             /\ "On Going" \notin statuses =>
                  /\ \A k \in DOMAIN wp : wp[k].TP_OnGoing = 0 /\ wp[k].LoP_OnGoing = 0
                  /\ \A k \in DOMAIN dp : dp[k].TP_OnGoing = 0 /\ dp[k].LoP_OnGoing = 0

====
